---- MODULE Spec2Model ----
(***************************************************************************)
(* Model of the code execution and grading core of skylearn:               *)
(*   CodeExecutionService (executeCode, testCode, parseOutput,             *)
(*   compareOutputs), SubmissionModel (the in-memory submission store),    *)
(*   CodingController.submitSolution / executeCode / analyzeCode and       *)
(*   TestService.submitCodingTest / submitMCQTest.                         *)
(*                                                                         *)
(* Node runs every handler on one thread: the code between two awaits is   *)
(* one atomic step, and the handlers of different requests interleave at   *)
(* their awaits.  Each request is a process of Procs: it starts at "idle",  *)
(* its position is pc[p], its local variables are loc[p], and it is "done" *)
(* when its response is sent.                                              *)
(*                                                                         *)
(* Spec is the server with its requests.  SpecScore, SpecCompare and       *)
(* SpecMCQ each run one function that touches no state of the server (the  *)
(* score of one question, compareOutputs, TestService.submitMCQTest) on    *)
(* the inputs held in the variable call.  SpecStore calls the methods of   *)
(* SubmissionModel in any order, and SpecLive is submitSolution under the  *)
(* fairness of the event loop.                                             *)
(***************************************************************************)
EXTENDS Integers, Sequences, FiniteSets, TLC

\* ---------------------------------------------------------------- bounds
MaxClock == 2        \* distinct values Date.now() takes during a run
MaxInv == 2          \* executeCode invocations in a run

\* Two requests are in flight.
Procs == {1, 2}

\* ------------------------------------------------------------ JS values
\* A JavaScript value is a record [k, v]: k is its kind, v its payload.
Num(n) == [k |-> "num", v |-> n]
Str(t) == [k |-> "str", v |-> t]
Arr(s) == [k |-> "arr", v |-> s]
Obj(f) == [k |-> "obj", v |-> f]

\* The payload of an array is the sequence of its elements; the payload of
\* an object is the sequence of its properties in insertion order, each a
\* Prop, no key twice.
Prop(key, val) == [key |-> key, val |-> val]
Null == [k |-> "null", v |-> 0]
Undefined == [k |-> "undefined", v |-> 0]

\* A JavaScript number that may be NaN.
NaN == [nan |-> TRUE, v |-> 0]
Number(n) == [nan |-> FALSE, v |-> n]

\* a + b
Plus(a, b) == IF a.nan \/ b.nan THEN NaN ELSE Number(a.v + b.v)

\* round(x / y) in exact arithmetic for integers x >= 0, y >= 0: halves
\* round up, 0/0 is NaN
RoundDiv(x, y) == IF y = 0 THEN NaN ELSE Number((2 * x + y) \div (2 * y))

\* ------------------------------------------------- double-precision numbers
\* The arithmetic of JavaScript numbers (IEEE 754 binary64) on the values
\* the scoring code computes: a quotient of two small non-negative integers
\* and its product with a small positive integer.  A positive double is
\* [bits, exp]: bits is its 53-bit significand, most significant bit first
\* (bits[1] = 1), read as an integer N, and its value is N * 2^exp.
Precision == 53
GuardBits == 12      \* quotient bits computed beyond the significand

FZero == [zero |-> TRUE, nan |-> FALSE, bits |-> <<>>, exp |-> 0]
FNaN == [zero |-> FALSE, nan |-> TRUE, bits |-> <<>>, exp |-> 0]

\* The binary digits of the natural number n, most significant first.
RECURSIVE BinOf(_)
BinOf(n) == IF n = 0 THEN <<>> ELSE Append(BinOf(n \div 2), n % 2)

\* The natural number with the binary digits bs.
RECURSIVE ValOf(_)
ValOf(bs) ==
  IF bs = <<>> THEN 0
  ELSE IF Len(bs) = 1 THEN bs[1]
  ELSE LET h == Len(bs) \div 2 IN
       ValOf(SubSeq(bs, 1, h)) * 2^(Len(bs) - h) + ValOf(SubSeq(bs, h + 1, Len(bs)))

\* 2^i mod t, 0 <= i <= 3 * PowChunk, computed without leaving 32 bits
PowChunk == 22
Pow2Mod(i, t) ==
  LET a == IF i < PowChunk THEN i ELSE PowChunk
      b == IF i - a < PowChunk THEN i - a ELSE PowChunk
      c == i - a - b
      m(k) == (2^k) % t
  IN (((m(a) * m(b)) % t) * m(c)) % t

\* The first n digits of the binary expansion of r / t, 0 <= r < t.
FracBits(r, t, n) == [i \in 1..n |-> (2 * ((r * Pow2Mod(i - 1, t)) % t)) \div t]

\* The remainder left after those n digits.
FracRem(r, t, n) == (r * Pow2Mod(n, t)) % t

StripZeros(bs) ==
  IF \A i \in 1..Len(bs) : bs[i] = 0 THEN <<>>
  ELSE LET k == CHOOSE i \in 1..Len(bs) :
                  bs[i] = 1 /\ \A j \in 1..(i - 1) : bs[j] = 0
       IN SubSeq(bs, k, Len(bs))

\* bs + 1 on binary digits
Increment(bs) ==
  IF \A i \in 1..Len(bs) : bs[i] = 1
  THEN <<1>> \o [i \in 1..Len(bs) |-> 0]
  ELSE LET k == CHOOSE i \in 1..Len(bs) :
                  bs[i] = 0 /\ \A j \in (i + 1)..Len(bs) : bs[j] = 1
       IN [i \in 1..Len(bs) |-> IF i < k THEN bs[i] ELSE IF i = k THEN 1 ELSE 0]

\* Round to nearest, ties to even: the double nearest to (N + s) * 2^exp,
\* where N > 0 has the digits bs (bs[1] = 1) and 0 <= s < 1 is non-zero
\* exactly when sticky.
RoundToDouble(bs, sticky, exp) ==
  IF Len(bs) <= Precision
  THEN [zero |-> FALSE, nan |-> FALSE,
        bits |-> bs \o [i \in 1..(Precision - Len(bs)) |-> 0],
        exp |-> exp - (Precision - Len(bs))]
  ELSE LET kept == SubSeq(bs, 1, Precision)
           half == bs[Precision + 1] = 1
           below == sticky \/ \E i \in (Precision + 2)..Len(bs) : bs[i] = 1
           up == half /\ (below \/ kept[Precision] = 1)
           sum == IF up THEN Increment(kept) ELSE kept
           e == exp + (Len(bs) - Precision)
       IN
       IF Len(sum) > Precision
       THEN [zero |-> FALSE, nan |-> FALSE,
             bits |-> SubSeq(sum, 1, Precision), exp |-> e + 1]
       ELSE [zero |-> FALSE, nan |-> FALSE, bits |-> sum, exp |-> e]

\* x / y on doubles, x and y non-negative integers, x = 0 when y = 0
FDiv(x, y) ==
  IF y = 0 THEN FNaN
  ELSE IF x = 0 THEN FZero
  ELSE LET n == Precision + GuardBits
           digits == BinOf(x \div y) \o FracBits(x % y, y, n)
       IN RoundToDouble(StripZeros(digits), FracRem(x % y, y, n) # 0, 0 - n)

\* Binary digits are multiplied in limbs of LimbBits digits.
LimbBits == 13
LimbBase == 2^LimbBits

\* limbs * c + carry on limbs (most significant first), 0 < c < LimbBase
RECURSIVE MulLimbs(_, _, _)
MulLimbs(limbs, c, carry) ==
  IF limbs = <<>> THEN <<carry>>
  ELSE LET v == limbs[Len(limbs)] * c + carry IN
       Append(MulLimbs(SubSeq(limbs, 1, Len(limbs) - 1), c, v \div LimbBase),
              v % LimbBase)

\* bs * c on binary digits, bs[1] = 1
MulBits(bs, c) ==
  LET count == (Len(bs) + LimbBits - 1) \div LimbBits
      padded == [i \in 1..(count * LimbBits - Len(bs)) |-> 0] \o bs
      limbs == [j \in 1..count |->
                  ValOf(SubSeq(padded, (j - 1) * LimbBits + 1, j * LimbBits))]
      product == MulLimbs(limbs, c, 0)
  IN StripZeros([i \in 1..(Len(product) * LimbBits) |->
                   (product[(i - 1) \div LimbBits + 1]
                      \div 2^(LimbBits - 1 - ((i - 1) % LimbBits))) % 2])

\* d * c on doubles, c a small positive integer
FMul(d, c) ==
  IF d.nan THEN FNaN
  ELSE IF d.zero THEN FZero
  ELSE RoundToDouble(MulBits(d.bits, c), FALSE, d.exp)

\* Math.round(d) = floor(d + 1/2), d a double below 2^52
MathRound(d) ==
  IF d.nan THEN NaN
  ELSE IF d.zero THEN Number(0)
  ELSE LET whole == Precision + d.exp      \* digits before the point
       IN
       IF whole < 0 THEN Number(0)
       ELSE Number(ValOf(SubSeq(d.bits, 1, whole)) + d.bits[whole + 1])

\* The value of an absent error field, and of `stderr || undefined`.
undefined == "undefined"

\* ------------------------------------------------------- text and parsing
\* A text (stdout, a JSON document) is a sequence of tokens.  The alphabet
\* is: white space, the punctuation of JSON arrays, the literal null and
\* one-token numbers; any other token is a letter.
WhiteSpace == {" ", "\n"}
NumTokens == {"0", "1", "2", "7"}

NumOf(tok) ==
  CASE tok = "0" -> 0
    [] tok = "1" -> 1
    [] tok = "2" -> 2
    [] tok = "7" -> 7

RECURSIVE trimStart(_)
trimStart(t) ==
  IF t # <<>> /\ Head(t) \in WhiteSpace THEN trimStart(Tail(t)) ELSE t

RECURSIVE trimEnd(_)
trimEnd(t) ==
  IF t # <<>> /\ t[Len(t)] \in WhiteSpace
  THEN trimEnd(SubSeq(t, 1, Len(t) - 1))
  ELSE t

\* String.prototype.trim
trim(t) == trimEnd(trimStart(t))

IsNotWhiteSpace(tok) == tok \notin WhiteSpace

ParseFail == [ok |-> FALSE, val |-> Undefined, rest |-> <<>>]

\* JSON.parse, one value at the head of a token sequence that holds no white
\* space: [ok, val, rest].
RECURSIVE ParseValue(_)
RECURSIVE ParseElements(_, _)
ParseValue(t) ==
  IF t = <<>> THEN ParseFail
  ELSE IF Head(t) \in NumTokens
    THEN [ok |-> TRUE, val |-> Num(NumOf(Head(t))), rest |-> Tail(t)]
  ELSE IF Head(t) = "null"
    THEN [ok |-> TRUE, val |-> Null, rest |-> Tail(t)]
  ELSE IF Head(t) = "["
    THEN IF Tail(t) # <<>> /\ Head(Tail(t)) = "]"
         THEN [ok |-> TRUE, val |-> Arr(<<>>), rest |-> Tail(Tail(t))]
         ELSE ParseElements(Tail(t), <<>>)
  ELSE ParseFail

ParseElements(t, acc) ==
  LET r == ParseValue(t) IN
  IF ~r.ok \/ r.rest = <<>> THEN ParseFail
  ELSE IF Head(r.rest) = "]"
    THEN [ok |-> TRUE, val |-> Arr(Append(acc, r.val)), rest |-> Tail(r.rest)]
  ELSE IF Head(r.rest) = ","
    THEN ParseElements(Tail(r.rest), Append(acc, r.val))
  ELSE ParseFail

\* JSON.parse(text): white space between tokens is insignificant, and the
\* whole text must be one value.
JSONParse(t) ==
  LET r == ParseValue(SelectSeq(t, IsNotWhiteSpace)) IN
  IF r.ok /\ r.rest = <<>> THEN r ELSE ParseFail

\* JSON.stringify(x), x a number, null or an array of such values
RECURSIVE JSONStringify(_)
RECURSIVE StringifyElements(_)
JSONStringify(x) ==
  IF x.k = "num" THEN <<ToString(x.v)>>
  ELSE IF x.k = "arr" THEN <<"[">> \o StringifyElements(x.v) \o <<"]">>
  ELSE <<"null">>

StringifyElements(elements) ==
  IF elements = <<>> THEN <<>>
  ELSE IF Len(elements) = 1 THEN JSONStringify(elements[1])
  ELSE JSONStringify(elements[1]) \o <<",">> \o StringifyElements(Tail(elements))

\* CodeExecutionService.formatTestInput: JSON.stringify(input) for every
\* language.
formatTestInput(input, language) == JSONStringify(input)

\* CodeExecutionService.parseOutput
parseOutput(output) ==
  LET r == JSONParse(trim(output)) IN
  IF r.ok THEN r.val ELSE Str(trim(output))

\* ------------------------------------------------------- compareOutputs
IsArray(x) == x.k = "arr"

\* typeof x === 'object' && x !== null
IsObject(x) == x.k \in {"arr", "obj"}

\* Object.keys(x), x an array or an object
ObjectKeys(x) ==
  IF x.k = "arr" THEN {ToString(i - 1) : i \in 1..Len(x.v)}
  ELSE {x.v[i].key : i \in 1..Len(x.v)}

\* x[key], x an array or an object
GetProp(x, key) ==
  IF x.k = "arr"
  THEN IF key = "length" THEN Num(Len(x.v))
       ELSE IF \E i \in 1..Len(x.v) : ToString(i - 1) = key
            THEN x.v[CHOOSE i \in 1..Len(x.v) : ToString(i - 1) = key]
            ELSE Undefined
  ELSE IF \E i \in 1..Len(x.v) : x.v[i].key = key
       THEN x.v[CHOOSE i \in 1..Len(x.v) : x.v[i].key = key].val
       ELSE Undefined

\* actual === expected, reached with at most one of the two an object
StrictEquals(a, e) == a.k = e.k /\ ~IsObject(a) /\ a.v = e.v

RECURSIVE compareOutputs(_, _)
compareOutputs(actual, expected) ==
  IF IsArray(actual) /\ IsArray(expected)
  THEN /\ Len(actual.v) = Len(expected.v)
       /\ \A idx \in 1..Len(actual.v) :
            compareOutputs(actual.v[idx], expected.v[idx])
  ELSE IF IsObject(actual) /\ IsObject(expected)
  THEN /\ Cardinality(ObjectKeys(actual)) = Cardinality(ObjectKeys(expected))
       /\ \A key \in ObjectKeys(actual) :
            compareOutputs(GetProp(actual, key), GetProp(expected, key))
  ELSE StrictEquals(actual, expected)

\* ------------------------------------------------------------- program data
\* SUPPORTED_LANGUAGES, FILE_EXTENSIONS
SUPPORTED_LANGUAGES == {"javascript", "python", "java", "cpp"}

FILE_EXTENSIONS(language) ==
  CASE language = "javascript" -> "js"
    [] language = "python" -> "py"
    [] language = "java" -> "java"
    [] language = "cpp" -> "cpp"
    [] OTHER -> undefined

\* The languages and the source texts that requests carry.
LanguageInputs == {"python", "ruby"}
CodeInputs == {"codeA"}
EmptyCode == ""
UserIds == {1}

\* A null entry of a test-case list.
NullCase == [isNull |-> TRUE]
IsNullCase(testCase) == "isNull" \in DOMAIN testCase

tcPair == [id |-> 1, input |-> Arr(<<Num(2), Num(7)>>),
           expectedOutput |-> Arr(<<Num(0), Num(1)>>)]
tcSeven == [id |-> 2, input |-> Num(7), expectedOutput |-> Num(7)]

\* problem.testCases is a list, a JSON string of a list (isString), or
\* something JSON.parse or for...of rejects (malformed).
TestCaseData(isString, malformed, cases) ==
  [isString |-> isString, malformed |-> malformed, cases |-> cases]

\* CodingProblemModel.getById: the problems of the store.
ProblemIds == {1, 2, 3}
Problems(id) ==
  CASE id = 1 -> [id |-> 1, testCases |->
                    TestCaseData(TRUE, FALSE, <<tcPair, NullCase, tcSeven>>)]
    [] id = 2 -> [id |-> 2, testCases |-> TestCaseData(FALSE, FALSE, <<>>)]
    [] id = 3 -> [id |-> 3, testCases |-> TestCaseData(TRUE, TRUE, <<>>)]
\* The problem ids that requests carry: one of them names no problem.
ProblemIdInputs == ProblemIds \cup {9}

\* What the process prints when it exits normally.
Stdouts == {<<"[", "0", ",", "1", "]", "\n">>, <<"7">>, <<>>}
Stderrs == {"", "warning"}

\* What a process has written when it exits normally: any of the outputs
\* with nothing on stderr, and one with a warning on it.
ProcessOutputs ==
  {o \in [stdout : Stdouts, stderr : Stderrs] :
     o.stderr = "" \/ o.stdout = <<"7">>}

\* ------------------------------------------------------- submission store
NoResults == [none |-> TRUE]
NoId == 0

\* SubmissionModel.create: the record it stores and returns.
NewSubmission(id, submissionData, createdAt) ==
  [id |-> id,
   userId |-> submissionData.userId,
   problemId |-> submissionData.problemId,
   testId |-> submissionData.testId,
   code |-> submissionData.code,
   language |-> submissionData.language,
   status |-> submissionData.status,
   results |-> submissionData.results,
   createdAt |-> createdAt]

\* SubmissionModel.create that does not advance the counter.
SubmissionModelCreateNoIncrement(store, counter, submissionData, createdAt) ==
  [submissions |->
     [i \in DOMAIN store \cup {counter} |->
        IF i = counter THEN NewSubmission(counter, submissionData, createdAt)
        ELSE store[i]],
   submissionIdCounter |-> counter,
   id |-> counter]

\* SubmissionModel.create: the store after the call, with the counter.
SubmissionModelCreate(store, counter, submissionData, createdAt) ==
  [submissions |->
     [i \in DOMAIN store \cup {counter} |->
        IF i = counter THEN NewSubmission(counter, submissionData, createdAt)
        ELSE store[i]],
   submissionIdCounter |-> counter + 1,
   id |-> counter]

\* SubmissionModel.getById: the record, undefined for an id the store does
\* not hold.
SubmissionModelGetById(store, id) ==
  IF id \in DOMAIN store THEN store[id] ELSE undefined

\* A SubmissionModel.update that removes the record it marks failed.
SubmissionModelUpdateRemovesFailed(store, id, status, results) ==
  IF id \notin DOMAIN store THEN store
  ELSE IF status = "failed" THEN [i \in DOMAIN store \ {id} |-> store[i]]
  ELSE [store EXCEPT ![id] =
          [@ EXCEPT !.status = status,
                    !.results = IF results # NoResults THEN results ELSE @]]

\* A SubmissionModel.update that sets the status of every record.
SubmissionModelUpdateEveryRecord(store, id, status, results) ==
  IF id \notin DOMAIN store THEN store
  ELSE [i \in DOMAIN store |->
          [store[i] EXCEPT
             !.status = status,
             !.results = IF i = id /\ results # NoResults THEN results ELSE @]]

\* SubmissionModel.update: the store after the call.
SubmissionModelUpdate(store, id, status, results) ==
  IF id \notin DOMAIN store THEN store
  ELSE [store EXCEPT ![id] =
          [@ EXCEPT !.status = status,
                    !.results = IF results # NoResults THEN results ELSE @]]

\* SubmissionModel.update: what it returns, the updated record or undefined.
SubmissionModelUpdateReturn(store, id, status, results) ==
  IF id \notin DOMAIN store THEN undefined
  ELSE SubmissionModelUpdate(store, id, status, results)[id]

\* Array.from(this.submissions.values()): the records in the order the Map
\* got their keys, the order of the calls of create (ascending id).
SubmissionValues(store) ==
  [r \in 1..Cardinality(DOMAIN store) |->
     store[CHOOSE i \in DOMAIN store :
             Cardinality({j \in DOMAIN store : j < i}) = r - 1]]

\* .sort((a, b) => b.createdAt.getTime() - a.createdAt.getTime()): the sort
\* is stable, records with the same createdAt keep their order.
SortByCreatedAtDescending(list) ==
  LET ahead(i) == {j \in 1..Len(list) :
                     \/ list[j].createdAt > list[i].createdAt
                     \/ list[j].createdAt = list[i].createdAt /\ j < i}
  IN [r \in 1..Len(list) |->
        list[CHOOSE i \in 1..Len(list) : Cardinality(ahead(i)) = r - 1]]

\* SubmissionModel.getByUserId, getByProblemId, getByTestId
SubmissionModelGetByUserId(store, userId) ==
  LET matches(submission) == submission.userId = userId IN
  SortByCreatedAtDescending(SelectSeq(SubmissionValues(store), matches))

SubmissionModelGetByProblemId(store, problemId) ==
  LET matches(submission) == submission.problemId = problemId IN
  SortByCreatedAtDescending(SelectSeq(SubmissionValues(store), matches))

SubmissionModelGetByTestId(store, testId) ==
  LET matches(submission) == submission.testId = testId IN
  SortByCreatedAtDescending(SelectSeq(SubmissionValues(store), matches))

\* ------------------------------------------------------------------ state
VARIABLES
  now,                  \* Date.now(), new Date()
  submissions,          \* SubmissionModel.submissions: id -> record
  submissionIdCounter,  \* SubmissionModel.submissionIdCounter
  dirs,                 \* the directories under /tmp/code-execution
  fs,                   \* the files under them: path -> [writer, content]
  pc,                   \* the position of each request's handler
  loc,                  \* the local variables of each request's handler
  invs,                 \* history: the executeCode invocations, in order
  audit,                \* history: the calls of SubmissionModel.create
  call                  \* the call of a function that is run on its own

vars == <<now, submissions, submissionIdCounter, dirs, fs, pc, loc, invs, audit, call>>
serverVars == <<now, submissions, submissionIdCounter, dirs, fs, pc, loc, invs, audit>>

\* No function is run on its own.
NoCall == [fn |-> "none"]

InitLoc ==
  [handler |-> "none", userId |-> 0, code |-> "", language |-> "",
   problemId |-> NoId, testId |-> NoId, submissionId |-> NoId,
   testCases |-> <<>>, tcIdx |-> 1, results |-> <<>>, allPassed |-> TRUE,
   faults |-> <<>>, inv |-> 0, tempDir |-> 0, filePath |-> <<>>,
   subList |-> <<>>, subIdx |-> 1, questions |-> <<>>, problem |-> <<>>,
   ctResults |-> <<>>, totalScore |-> Number(0), maxScore |-> 0,
   advisory |-> "none"]

\* The server after start-up: an empty store and no request.
Idle ==
  /\ now = 1
  /\ submissions = <<>>
  /\ submissionIdCounter = 1
  /\ dirs = {}
  /\ fs = <<>>
  /\ pc = [p \in Procs |-> "idle"]
  /\ loc = [p \in Procs |-> InitLoc]
  /\ invs = <<>>
  /\ audit = <<>>

Init ==
  /\ Idle
  /\ call = NoCall

\* The local variables of a handler that has sent `response`: they are gone.
Respond(response) == InitLoc

\* The clock advances.
Tick ==
  /\ now < MaxClock
  /\ now' = now + 1
  /\ UNCHANGED <<submissions, submissionIdCounter, dirs, fs, pc, loc, invs, audit>>
  /\ UNCHANGED call

\* ------------------------------------------------------------- history
\* audit[k] records the k-th call of SubmissionModel.create: the id it
\* returned, the handler that made it (entry), every status the record has
\* had since, oldest first (statuses), whether testCode returned a result
\* for it (runnerReturned) with the number of passed cases and of cases, and
\* the score it earned, and the request that made the call with, for
\* submitCodingTest, the position in the submissions list of the entry the
\* record is for (by).
NewAudit(entry, by, status, runnerReturned, passedCases, totalCases, score) ==
  [id |-> NoId, entry |-> entry, by |-> by, statuses |-> <<status>>,
   runnerReturned |-> runnerReturned,
   passedCases |-> passedCases, totalCases |-> totalCases, score |-> score]

AuditCreate(a, id, rec) == Append(a, [rec EXCEPT !.id = id])

AuditGraded(a, id, passedCases, totalCases) ==
  [k \in DOMAIN a |->
     IF a[k].id = id
     THEN [a[k] EXCEPT !.statuses = Append(@, "completed"),
                       !.runnerReturned = TRUE,
                       !.passedCases = passedCases,
                       !.totalCases = totalCases]
     ELSE a[k]]

AuditFailed(a, id) ==
  [k \in DOMAIN a |->
     IF a[k].id = id THEN [a[k] EXCEPT !.statuses = Append(@, "failed")]
     ELSE a[k]]

\* invs[i] records the i-th executeCode invocation: its scratch directory
\* and source file, the executor-level fault that
\* hit it (fault), how the fault reached the caller (surfaced), whether
\* testCode made a passed:false entry of it (asEntry), the invocation whose
\* file it overwrote (overwrote) and whose file it ran (ran), 0 for none,
\* whether exec killed the process at the timeout (killed), the error
\* field of the result executeCode returned (error, "none" before that),
\* the input parameter of executeCode (input), whether exec has spawned the
\* command (spawned), the words of the command line and what the process
\* could read from its standard input (command, stdin), how the process
\* ended ("normal", "failed" for a compile error, a non-zero exit or a
\* signal, "timeout"; "none" before that) with what it had written (exit,
\* stdout, stderr), the output field of the result (output), the call that
\* made the invocation (by: the request and, for testCode, the position in
\* the submissions list of the submission it grades, 0 for the controller)
\* and whether the promise of executeCode has settled and its caller has
\* gone on (settled).
NoInput == <<>>

NewInv(tempDir, filePath, input, by) ==
  [by |-> by, settled |-> FALSE,
   tempDir |-> tempDir, filePath |-> filePath,
   fault |-> "none", surfaced |-> "none", asEntry |-> FALSE,
   overwrote |-> 0, ran |-> 0, killed |-> FALSE, error |-> "none",
   input |-> input, spawned |-> FALSE, command |-> <<>>, stdin |-> <<>>,
   exit |-> "none", stdout |-> <<>>, stderr |-> "", output |-> <<>>]

\* ---------------------------------------------------------------- testCode
\* { ...testCase, ...over }
Spread(testCase, over) ==
  LET base == IF IsNullCase(testCase) THEN <<>> ELSE testCase IN
  [f \in DOMAIN base \cup DOMAIN over |->
     IF f \in DOMAIN over THEN over[f] ELSE base[f]]

\* testCase.expectedOutput
ExpectedOutput(testCase) ==
  IF "expectedOutput" \in DOMAIN testCase THEN testCase.expectedOutput
  ELSE Undefined

\* `if (error)`: neither undefined nor the empty string
Truthy(error) == error # undefined /\ error # ""

\* The catch block of testCode without `allPassed = false`.
TestCodeCatchKeepsPassed(l, message) ==
  [l EXCEPT
     !.inv = 0, !.tempDir = 0, !.filePath = <<>>,
     !.results = Append(@, Spread(l.testCases[l.tcIdx],
                   [passed |-> FALSE, error |-> message, actualOutput |-> Null])),
     !.faults = Append(@, [idx |-> l.tcIdx, message |-> message]),
     !.tcIdx = @ + 1]

\* The catch block of testCode without the error message in the entry.
TestCodeCatchNoMessage(l, message) ==
  [l EXCEPT
     !.inv = 0, !.tempDir = 0, !.filePath = <<>>,
     !.results = Append(@, Spread(l.testCases[l.tcIdx],
                   [passed |-> FALSE, error |-> undefined, actualOutput |-> Null])),
     !.allPassed = FALSE,
     !.faults = Append(@, [idx |-> l.tcIdx, message |-> message]),
     !.tcIdx = @ + 1]

\* testCode, the catch block of one test case: the locals after it (the
\* locals of executeCode are gone).
TestCodeCatch(l, message) ==
  [l EXCEPT
     !.inv = 0, !.tempDir = 0, !.filePath = <<>>,
     !.results = Append(@, Spread(l.testCases[l.tcIdx],
                   [passed |-> FALSE, error |-> message, actualOutput |-> Null])),
     !.allPassed = FALSE,
     !.faults = Append(@, [idx |-> l.tcIdx, message |-> message]),
     !.tcIdx = @ + 1]

\* testCode, one test case after executeCode returned {output, error}: the
\* locals after it.
TestCodeResult(l, output, error) ==
  LET testCase == l.testCases[l.tcIdx]
      parsedOutput == parseOutput(output)
      passed == compareOutputs(parsedOutput, ExpectedOutput(testCase))
  IN
  IF Truthy(error)
  THEN [l EXCEPT
          !.inv = 0, !.tempDir = 0, !.filePath = <<>>,
          !.results = Append(@, Spread(testCase,
                        [passed |-> FALSE, error |-> error, actualOutput |-> Null])),
          !.allPassed = FALSE,
          !.tcIdx = @ + 1]
  ELSE [l EXCEPT
          !.inv = 0, !.tempDir = 0, !.filePath = <<>>,
          !.results = Append(@, Spread(testCase,
                        [passed |-> passed, actualOutput |-> parsedOutput,
                         error |-> undefined])),
          !.allPassed = IF passed THEN @ ELSE FALSE,
          !.tcIdx = @ + 1]

\* A testCode loop that stops at the first case that does not pass.
AfterCaseFailFast(l) ==
  IF l.tcIdx > Len(l.testCases) \/ ~l.allPassed THEN "tc_done" ELSE "tc_loop"

\* The position of testCode after a test case: the loop goes on, or testCode
\* returns {passed: allPassed, results}.
AfterCase(l) == IF l.tcIdx > Len(l.testCases) THEN "tc_done" ELSE "tc_loop"

\* testCode, entered with a list of test cases: the locals at the loop.
TestCodeEnter(l, testCases) ==
  [l EXCEPT !.testCases = testCases, !.tcIdx = 1, !.results = <<>>,
            !.allPassed = TRUE, !.faults = <<>>]

\* results.filter(r => r.passed).length
RECURSIVE PassedCount(_)
PassedCount(results) ==
  IF results = <<>> THEN 0
  ELSE (IF Head(results).passed THEN 1 ELSE 0) + PassedCount(Tail(results))

\* ------------------------------------------------------------- executeCode
\* The path of the source file: join(tempDir, `solution.${fileExt}`).
FilePath(tempDir, language) ==
  [dir |-> tempDir, name |-> <<"solution", FILE_EXTENSIONS(language)>>]

\* join('/tmp', 'code-execution', Date.now().toString())
TempDir(clock) == clock

\* A caller that goes on before the promise of executeCode has settled.
ExecuteCodeNotAwaited(inv) == inv

\* `await this.executeCode(...)`: the caller goes on when the promise of the
\* invocation settles, with a result or an exception.
ExecuteCodeSettled(inv) == [inv EXCEPT !.settled = TRUE]

\* executeCode threw `message`: it reaches the handler that called it, the
\* catch block of testCode or the catch block of the controller.
Thrown(p, message, newInvs) ==
  IF loc[p].handler = "executeCode"
  THEN /\ loc' = [loc EXCEPT ![p] = Respond([code |-> 500, error |-> message])]
       /\ pc' = [pc EXCEPT ![p] = "done"]
       /\ invs' = [newInvs EXCEPT ![loc[p].inv] = ExecuteCodeSettled(@)]
  ELSE /\ loc' = [loc EXCEPT ![p] = TestCodeCatch(loc[p], message)]
       /\ pc' = [pc EXCEPT ![p] = AfterCase(loc'[p])]
       /\ invs' = [newInvs EXCEPT ![loc[p].inv] =
                     ExecuteCodeSettled([@ EXCEPT !.asEntry = TRUE])]

\* executeCode returned {output, error}: the controller sends it, testCode
\* makes an entry of it.
Returned(p, output, error, newInvs) ==
  IF loc[p].handler = "executeCode"
  THEN /\ loc' = [loc EXCEPT ![p] =
                    Respond([code |-> 200, output |-> output, error |-> error])]
       /\ pc' = [pc EXCEPT ![p] = "done"]
       /\ invs' = [newInvs EXCEPT ![loc[p].inv] =
                     ExecuteCodeSettled([@ EXCEPT !.error = error,
                                                  !.output = output])]
  ELSE /\ loc' = [loc EXCEPT ![p] = TestCodeResult(loc[p], output, error)]
       /\ pc' = [pc EXCEPT ![p] = AfterCase(loc'[p])]
       /\ invs' = [newInvs EXCEPT ![loc[p].inv] =
                     ExecuteCodeSettled([@ EXCEPT !.asEntry =
                                                    newInvs[loc[p].inv].fault # "none",
                                                  !.error = error,
                                                  !.output = output])]

\* An executeCode that returns stderr as it is.
ExecuteCodeResultRawStderr(stdout, stderr) ==
  [output |-> stdout, error |-> stderr]

\* executeCode, the return after execAsync resolved:
\* {output: stdout, error: stderr || undefined}
ExecuteCodeResult(stdout, stderr) ==
  [output |-> stdout, error |-> IF stderr = "" THEN undefined ELSE stderr]

\* executeCode, the catch block: {output: '', error: error.message}
ExecuteCodeCatch(message) == [output |-> <<>>, error |-> message]

\* An executeCode that checks no language.
ExecuteCodeRejectsNothing(language) == FALSE

\* executeCode, the language check: !SUPPORTED_LANGUAGES.includes(language)
ExecuteCodeRejects(language) == language \notin SUPPORTED_LANGUAGES

\* executeCode, from the language check to the call of mkdir.
ExecuteCodeStart(l, p, clock, inv) ==
  [l EXCEPT !.inv = inv, !.tempDir = TempDir(clock),
            !.filePath = FilePath(TempDir(clock), l.language)]

\* executeCode: mkdir(tempDir, {recursive: true}) creates the directory, or
\* fails and executeCode throws.
executeCode_mkdir(p) ==
  /\ pc[p] = "ex_mkdir"
  /\ \E ok \in BOOLEAN :
       IF ok
       THEN /\ dirs' = dirs \cup {loc[p].tempDir}
            /\ pc' = [pc EXCEPT ![p] = "ex_write"]
            /\ UNCHANGED <<loc, invs>>
       ELSE /\ Thrown(p, "mkdir failed",
                 [invs EXCEPT ![loc[p].inv].fault = "mkdir",
                              ![loc[p].inv].surfaced = "thrown"])
            /\ UNCHANGED dirs
  /\ UNCHANGED <<now, submissions, submissionIdCounter, fs, audit>>
  /\ UNCHANGED call

\* executeCode: writeFile(filePath, code) writes the file, or fails and
\* executeCode returns {output: '', error}.
executeCode_writeFile(p) ==
  /\ pc[p] = "ex_write"
  /\ \E ok \in BOOLEAN :
       IF ok
       THEN LET path == loc[p].filePath
                before == IF path \in DOMAIN fs THEN fs[path].writer ELSE 0
            IN
            /\ fs' = [f \in DOMAIN fs \cup {path} |->
                        IF f = path
                        THEN [writer |-> loc[p].inv, content |-> loc[p].code]
                        ELSE fs[f]]
            /\ invs' = [invs EXCEPT ![loc[p].inv].overwrote = before]
            /\ pc' = [pc EXCEPT ![p] = "ex_exec"]
            /\ UNCHANGED loc
       ELSE /\ Returned(p, ExecuteCodeCatch("writeFile failed").output,
                        ExecuteCodeCatch("writeFile failed").error,
                 [invs EXCEPT ![loc[p].inv].fault = "writeFile",
                              ![loc[p].inv].surfaced = "returned"])
            /\ UNCHANGED fs
  /\ UNCHANGED <<now, submissions, submissionIdCounter, dirs, audit>>
  /\ UNCHANGED call

\* EXECUTION_TIMEOUT = config.codeExecution.timeout, in milliseconds
EXECUTION_TIMEOUT == 10000

\* The ways execAsync(command, options) rejects: "Command failed" when the
\* command exits with a non-zero code (a compile error, a runtime error) or
\* is killed (at the timeout, by a signal), "spawn failed" when the shell
\* cannot be spawned.
ExecFailures == {"Command failed", "spawn failed"}

\* error.message of the rejection of execAsync when the process ran longer
\* than options.timeout and exec killed it: the message of a failed
\* command; the rejection also carries killed: true, which executeCode does
\* not read.
TimeoutMessage == "Command failed"

\* A path as a word of a command line.
PathWord(dir, name) == <<"/tmp/code-execution/", ToString(dir), "/">> \o name

\* EXECUTION_COMMANDS[language] with {file}, {className} and {executable}
\* replaced: the words of the command line, each a text.
ExecutionCommand(language, filePath, tempDir) ==
  LET file == PathWord(filePath.dir, filePath.name)
      executable == PathWord(tempDir, <<"solution">>)
  IN
  CASE language = "javascript" -> << <<"node">>, file >>
    [] language = "python" -> << <<"python3">>, file >>
    [] language = "java" ->
         << <<"javac">>, file, <<"&&">>, <<"java">>, <<"Solution">> >>
    [] language = "cpp" ->
         << <<"g++">>, file, <<"-o">>, executable, <<"&&">>, <<"./">> \o executable >>

\* What the process reads from its standard input: exec gives it a pipe
\* that nothing is written to, and `input` is no part of options.
ChildStdin(options) == <<>>

\* executeCode: execAsync runs the file at filePath with options.timeout;
\* executeCode returns {output: stdout, error: stderr || undefined}, or
\* {output: '', error} when execAsync rejects (a failed command, a shell
\* that cannot be spawned, a process killed at the timeout).
executeCode_exec(p) ==
  /\ pc[p] = "ex_exec"
  /\ LET file == fs[loc[p].filePath]
         command == ExecutionCommand(loc[p].language, loc[p].filePath, loc[p].tempDir)
         options == [timeout |-> EXECUTION_TIMEOUT]
         ranInvs == [invs EXCEPT ![loc[p].inv].ran = file.writer,
                                 ![loc[p].inv].spawned = TRUE,
                                 ![loc[p].inv].command = command,
                                 ![loc[p].inv].stdin = ChildStdin(options)]
     IN
     \/ \E written \in ProcessOutputs :
          LET result == ExecuteCodeResult(written.stdout, written.stderr) IN
          Returned(p, result.output, result.error,
                   [ranInvs EXCEPT ![loc[p].inv].exit = "normal",
                                   ![loc[p].inv].stdout = written.stdout,
                                   ![loc[p].inv].stderr = written.stderr])
     \/ \E failure \in ExecFailures :
          LET result == ExecuteCodeCatch(failure) IN
          Returned(p, result.output, result.error,
            IF failure = "spawn failed"
            THEN [invs EXCEPT ![loc[p].inv].fault = "spawn",
                              ![loc[p].inv].surfaced = "returned"]
            ELSE [ranInvs EXCEPT ![loc[p].inv].exit = "failed"])
     \/ LET result == ExecuteCodeCatch(TimeoutMessage) IN
        Returned(p, result.output, result.error,
                 [ranInvs EXCEPT ![loc[p].inv].killed = TRUE,
                                 ![loc[p].inv].exit = "timeout"])
  /\ UNCHANGED <<now, submissions, submissionIdCounter, dirs, fs, audit>>
  /\ UNCHANGED call

\* CodingController.executeCode
CodingController_executeCode(p) ==
  /\ pc[p] = "idle"
  /\ \E code \in CodeInputs \cup {EmptyCode}, language \in LanguageInputs :
       IF code = EmptyCode \/ language \notin SUPPORTED_LANGUAGES
       THEN /\ loc' = [loc EXCEPT ![p] = Respond([code |-> 400])]
            /\ pc' = [pc EXCEPT ![p] = "done"]
            /\ UNCHANGED invs
       ELSE /\ Len(invs) < MaxInv
            /\ loc' = [loc EXCEPT ![p] =
                 ExecuteCodeStart([InitLoc EXCEPT !.handler = "executeCode",
                                     !.code = code, !.language = language],
                                  p, now, Len(invs) + 1)]
            /\ invs' = Append(invs, NewInv(loc'[p].tempDir, loc'[p].filePath, NoInput,
                                           [request |-> p, submission |-> 0]))
            /\ pc' = [pc EXCEPT ![p] = "ex_mkdir"]
  /\ UNCHANGED <<now, submissions, submissionIdCounter, dirs, fs, audit>>
  /\ UNCHANGED call

\* testCode, the start of one test case: formatTestInput(testCase.input),
\* then executeCode up to its call of mkdir.
testCode_case(p) ==
  /\ pc[p] = "tc_loop"
  /\ LET l == loc[p]
         testCase == l.testCases[l.tcIdx]
     IN
     IF IsNullCase(testCase) \/ ExecuteCodeRejects(l.language)
     THEN /\ loc' = [loc EXCEPT ![p] =
               TestCodeCatch(l, IF IsNullCase(testCase) THEN "TypeError"
                                ELSE "Unsupported language")]
          /\ pc' = [pc EXCEPT ![p] = AfterCase(loc'[p])]
          /\ UNCHANGED invs
     ELSE /\ Len(invs) < MaxInv
          /\ loc' = [loc EXCEPT ![p] = ExecuteCodeStart(l, p, now, Len(invs) + 1)]
          /\ invs' = Append(invs, NewInv(loc'[p].tempDir, loc'[p].filePath,
                                         formatTestInput(testCase.input, l.language),
                                         [request |-> p, submission |-> l.subIdx]))
          /\ pc' = [pc EXCEPT ![p] = "ex_mkdir"]
  /\ UNCHANGED <<now, submissions, submissionIdCounter, dirs, fs, audit>>
  /\ UNCHANGED call

\* ---------------------------------------------- CodingController.submitSolution
\* submitSolution, up to `await SubmissionModel.create({... status: 'pending'})`.
submitSolution(p) ==
  /\ pc[p] = "idle"
  /\ \E problemId \in ProblemIdInputs, code \in CodeInputs \cup {EmptyCode},
        language \in LanguageInputs, userId \in UserIds :
       IF code = EmptyCode \/ language \notin SUPPORTED_LANGUAGES
       THEN /\ loc' = [loc EXCEPT ![p] = Respond([code |-> 400])]
            /\ pc' = [pc EXCEPT ![p] = "done"]
            /\ UNCHANGED <<submissions, submissionIdCounter, audit>>
       ELSE IF problemId \notin ProblemIds
       THEN /\ loc' = [loc EXCEPT ![p] = Respond([code |-> 404])]
            /\ pc' = [pc EXCEPT ![p] = "done"]
            /\ UNCHANGED <<submissions, submissionIdCounter, audit>>
       ELSE /\ LET created == SubmissionModelCreate(submissions, submissionIdCounter,
                                [userId |-> userId, problemId |-> problemId,
                                 testId |-> NoId, code |-> code,
                                 language |-> language, status |-> "pending",
                                 results |-> NoResults], now)
               IN
               /\ submissions' = created.submissions
               /\ submissionIdCounter' = created.submissionIdCounter
               /\ audit' = AuditCreate(audit, created.id,
                             NewAudit("submitSolution", [request |-> p, submission |-> 0],
                                      "pending", FALSE, 0, 0, Number(0)))
               /\ loc' = [loc EXCEPT ![p] =
                            [InitLoc EXCEPT !.handler = "submitSolution",
                               !.userId = userId, !.problemId = problemId,
                               !.code = code, !.language = language,
                               !.submissionId = created.id]]
            /\ pc' = [pc EXCEPT ![p] = "ss_created"]
  /\ UNCHANGED <<now, dirs, fs, invs>>
  /\ UNCHANGED call

\* A catch block of submitSolution that only throws the error again.
SubmitSolutionCatchOnlyRethrows(p, message) ==
  /\ UNCHANGED <<submissions, audit>>
  /\ loc' = [loc EXCEPT ![p] = Respond([code |-> 500, error |-> message])]
  /\ pc' = [pc EXCEPT ![p] = "done"]

\* submitSolution, the catch block of the inner try: the submission is
\* updated to failed, the error is thrown again and answered with a 500.
SubmitSolutionCatch(p, message) ==
  /\ submissions' = SubmissionModelUpdate(submissions, loc[p].submissionId,
                      "failed", [error |-> message])
  /\ audit' = AuditFailed(audit, loc[p].submissionId)
  /\ loc' = [loc EXCEPT ![p] = Respond([code |-> 500, error |-> message])]
  /\ pc' = [pc EXCEPT ![p] = "done"]

\* submitSolution, after the submission was created: the test cases are
\* parsed and testCode is entered; JSON.parse throws on a malformed string
\* and testCode throws on a value that is no list.
submitSolution_run(p) ==
  /\ pc[p] = "ss_created"
  /\ LET testCases == Problems(loc[p].problemId).testCases IN
     IF testCases.malformed
     THEN SubmitSolutionCatch(p, IF testCases.isString THEN "SyntaxError"
                                 ELSE "TypeError")
     ELSE /\ loc' = [loc EXCEPT ![p] = TestCodeEnter(loc[p], testCases.cases)]
          /\ pc' = [pc EXCEPT ![p] = AfterCase(loc'[p])]
          /\ UNCHANGED <<submissions, audit>>
  /\ UNCHANGED <<now, submissionIdCounter, dirs, fs, invs>>
  /\ UNCHANGED call

\* submitSolution, after testCode returned:
\* SubmissionModel.update(submission.id, 'completed', testResult).
submitSolution_update(p) ==
  /\ pc[p] = "tc_done"
  /\ loc[p].handler = "submitSolution"
  /\ submissions' = SubmissionModelUpdate(submissions, loc[p].submissionId,
                      "completed",
                      [passed |-> loc[p].allPassed, results |-> loc[p].results])
  /\ audit' = AuditGraded(audit, loc[p].submissionId,
                PassedCount(loc[p].results), Len(loc[p].results))
  /\ pc' = [pc EXCEPT ![p] = "ss_respond"]
  /\ UNCHANGED <<now, submissionIdCounter, dirs, fs, loc, invs>>
  /\ UNCHANGED call

\* submitSolution, res.json({submission, passed, results}): the response is
\* sent, or sending throws inside the inner try and its catch block runs.
submitSolution_respond(p) ==
  /\ pc[p] = "ss_respond"
  /\ \E sent \in BOOLEAN :
       IF sent
       THEN /\ loc' = [loc EXCEPT ![p] =
                         Respond([code |-> 200, passed |-> loc[p].allPassed])]
            /\ pc' = [pc EXCEPT ![p] = "done"]
            /\ UNCHANGED <<submissions, audit>>
       ELSE SubmitSolutionCatch(p, "response failed")
  /\ UNCHANGED <<now, submissionIdCounter, dirs, fs, invs>>
  /\ UNCHANGED call

\* ------------------------------------------------ TestService.submitCodingTest
\* problem.points || 10
PointsOf(problem) ==
  IF "points" \in DOMAIN problem /\ problem.points # 0 THEN problem.points ELSE 10

\* Math.round((passedCount / totalTests) * problemScore)
EarnedScore(passedCount, totalTests, problemScore) ==
  MathRound(FMul(FDiv(passedCount, totalTests), problemScore))

\* TestModel.getById: the tests of the store.  test.questions is a list, or
\* (malformed) a string JSON.parse rejects when isString, a value without
\* `find` otherwise.
TestIds == {1, 2, 3}
Tests(id) ==
  CASE id = 1 ->
         [id |-> 1, questions |-> [isString |-> FALSE, malformed |-> FALSE, list |->
            << [id |-> 1, points |-> 10,
                testCases |-> TestCaseData(FALSE, FALSE, <<tcPair>>)],
               [id |-> 2, testCases |-> TestCaseData(TRUE, FALSE, <<tcSeven>>)],
               [id |-> 3, points |-> 5, testCases |-> TestCaseData(FALSE, FALSE, <<>>)],
               [id |-> 5, points |-> 0, testCases |-> TestCaseData(FALSE, TRUE, <<>>)] >>]]
    [] id = 2 -> [id |-> 2, questions |-> [isString |-> TRUE, malformed |-> TRUE, list |-> <<>>]]
    [] id = 3 -> [id |-> 3, questions |-> [isString |-> FALSE, malformed |-> TRUE, list |-> <<>>]]


\* The submissions lists that requests carry.
SubmissionEntry(problemId, code, language) ==
  [problemId |-> problemId, code |-> code, language |-> language]

SubmissionLists ==
  {<<SubmissionEntry(q, c, "python")>> : q \in {1, 3, 5}, c \in CodeInputs}
  \cup {<<SubmissionEntry(2, c, "ruby")>> : c \in CodeInputs}
  \cup {<<SubmissionEntry(9, c, "python"), SubmissionEntry(2, c, "python")>> :
          c \in CodeInputs}

\* The requests of submitCodingTest: a test id (9 names no test) and a list.
CodingTestInputs ==
  ({1} \X SubmissionLists)
  \cup ({2, 3, 9} \X {<<SubmissionEntry(1, c, "python")>> : c \in CodeInputs})

\* questions.find((q) => q.id === problemId): the first match, <<>> for none
Find(questions, problemId) ==
  IF \E i \in 1..Len(questions) : questions[i].id = problemId
  THEN questions[CHOOSE i \in 1..Len(questions) :
                   /\ questions[i].id = problemId
                   /\ \A j \in 1..(i - 1) : questions[j].id # problemId]
  ELSE <<>>

\* submitCodingTest, up to the loop over the submissions.
submitCodingTest(p) ==
  /\ pc[p] = "idle"
  /\ \E input \in CodingTestInputs, userId \in UserIds :
       LET testId == input[1]
           subList == input[2]
       IN
       IF testId \notin TestIds
          \/ (Tests(testId).questions.isString /\ Tests(testId).questions.malformed)
       THEN /\ loc' = [loc EXCEPT ![p] = Respond([code |-> 500])]
            /\ pc' = [pc EXCEPT ![p] = "done"]
       ELSE /\ loc' = [loc EXCEPT ![p] =
                 [InitLoc EXCEPT !.handler = "submitCodingTest", !.userId = userId,
                                 !.testId = testId, !.subList = subList,
                                 !.questions = Tests(testId).questions]]
            /\ pc' = [pc EXCEPT ![p] = "ct_loop"]
  /\ UNCHANGED <<now, submissions, submissionIdCounter, dirs, fs, invs, audit>>
  /\ UNCHANGED call

\* A catch block of submitCodingTest that stores no record.
SubmitCodingTestCatchNoRecord(p, l, message) ==
  LET submission == l.subList[l.subIdx] IN
  /\ UNCHANGED <<submissions, submissionIdCounter, audit>>
  /\ loc' = [loc EXCEPT ![p] =
               [l EXCEPT !.ctResults = Append(@,
                            [problemId |-> submission.problemId, passed |-> FALSE,
                             error |-> message, score |-> Number(0)]),
                         !.subIdx = @ + 1]]
  /\ pc' = [pc EXCEPT ![p] = "ct_loop"]

\* submitCodingTest, the catch block of one submission, entered with the
\* locals l: a failed record is created and a failed sub-result is added.
SubmitCodingTestCatch(p, l, message) ==
  LET submission == l.subList[l.subIdx]
      created == SubmissionModelCreate(submissions, submissionIdCounter,
                   [userId |-> l.userId, problemId |-> submission.problemId,
                    testId |-> l.testId, code |-> submission.code,
                    language |-> submission.language, status |-> "failed",
                    results |-> [error |-> message]], now)
  IN
  /\ submissions' = created.submissions
  /\ submissionIdCounter' = created.submissionIdCounter
  /\ audit' = AuditCreate(audit, created.id,
                NewAudit("submitCodingTest", [request |-> p, submission |-> l.subIdx],
                         "failed", FALSE, 0, 0, Number(0)))
  /\ loc' = [loc EXCEPT ![p] =
               [l EXCEPT !.ctResults = Append(@,
                            [problemId |-> submission.problemId, passed |-> FALSE,
                             error |-> message, score |-> Number(0)]),
                         !.subIdx = @ + 1]]
  /\ pc' = [pc EXCEPT ![p] = "ct_loop"]

\* A submitCodingTest that returns at the first submission whose problem is
\* not among the questions.
ProblemNotFoundAborts(p, l, submission) ==
  /\ loc' = [loc EXCEPT ![p] =
               [l EXCEPT !.ctResults = Append(@,
                           [problemId |-> submission.problemId, passed |-> FALSE,
                            error |-> "Problem not found in test",
                            score |-> Number(0)])]]
  /\ pc' = [pc EXCEPT ![p] = "ct_return"]

\* submitCodingTest, a submission whose problem is not among the questions:
\* its sub-result is added and the loop continues with the next submission.
ProblemNotFound(p, l, submission) ==
  /\ loc' = [loc EXCEPT ![p] =
               [l EXCEPT !.ctResults = Append(@,
                           [problemId |-> submission.problemId, passed |-> FALSE,
                            error |-> "Problem not found in test",
                            score |-> Number(0)]),
                         !.subIdx = @ + 1]]
  /\ UNCHANGED pc

\* submitCodingTest, one submission up to its call of testCode, or the
\* return of {score, maxScore, results} after the last one.
submitCodingTest_next(p) ==
  /\ pc[p] = "ct_loop"
  /\ LET l == loc[p] IN
     IF l.subIdx > Len(l.subList)
     THEN /\ pc' = [pc EXCEPT ![p] = "ct_return"]
          /\ UNCHANGED <<loc, submissions, submissionIdCounter, audit>>
     ELSE IF l.questions.malformed
     THEN SubmitCodingTestCatch(p, l, "TypeError")
     ELSE LET submission == l.subList[l.subIdx]
              problem == Find(l.questions.list, submission.problemId)
          IN
          IF problem = <<>>
          THEN /\ ProblemNotFound(p, l, submission)
               /\ UNCHANGED <<submissions, submissionIdCounter, audit>>
          ELSE IF problem.testCases.malformed
          THEN SubmitCodingTestCatch(p, [l EXCEPT !.maxScore = @ + PointsOf(problem)],
                                     "TypeError")
          ELSE /\ loc' = [loc EXCEPT ![p] =
                    TestCodeEnter([l EXCEPT !.maxScore = @ + PointsOf(problem),
                                            !.problem = problem,
                                            !.code = submission.code,
                                            !.language = submission.language],
                                  problem.testCases.cases)]
               /\ pc' = [pc EXCEPT ![p] = AfterCase(loc'[p])]
               /\ UNCHANGED <<submissions, submissionIdCounter, audit>>
  /\ UNCHANGED <<now, dirs, fs, invs>>
  /\ UNCHANGED call

\* submitCodingTest, after testCode returned: the score is computed, a
\* completed record is created and the sub-result is added.
submitCodingTest_graded(p) ==
  /\ pc[p] = "tc_done"
  /\ loc[p].handler = "submitCodingTest"
  /\ LET l == loc[p]
         submission == l.subList[l.subIdx]
         passedCount == PassedCount(l.results)
         totalTests == Len(l.results)
         problemScore == PointsOf(l.problem)
         earnedScore == EarnedScore(passedCount, totalTests, problemScore)
         created == SubmissionModelCreate(submissions, submissionIdCounter,
                      [userId |-> l.userId, problemId |-> submission.problemId,
                       testId |-> l.testId, code |-> submission.code,
                       language |-> submission.language, status |-> "completed",
                       results |-> [passed |-> l.allPassed, results |-> l.results]],
                      now)
     IN
     /\ submissions' = created.submissions
     /\ submissionIdCounter' = created.submissionIdCounter
     /\ audit' = AuditCreate(audit, created.id,
                   NewAudit("submitCodingTest",
                            [request |-> p, submission |-> l.subIdx], "completed", TRUE,
                            passedCount, totalTests, earnedScore))
     /\ loc' = [loc EXCEPT ![p] =
                  [l EXCEPT !.totalScore = Plus(@, earnedScore),
                            !.ctResults = Append(@,
                               [problemId |-> submission.problemId,
                                passed |-> l.allPassed, results |-> l.results,
                                score |-> earnedScore, maxScore |-> problemScore]),
                            !.subIdx = @ + 1,
                            !.testCases = <<>>, !.tcIdx = 1, !.results = <<>>,
                            !.allPassed = TRUE, !.faults = <<>>, !.problem = <<>>]]
  /\ pc' = [pc EXCEPT ![p] = "ct_loop"]
  /\ UNCHANGED <<now, dirs, fs, invs>>
  /\ UNCHANGED call

\* TestController.submitCodingTest: the result of the service is sent.
submitCodingTest_respond(p) ==
  /\ pc[p] = "ct_return"
  /\ loc' = [loc EXCEPT ![p] = Respond([code |-> 200])]
  /\ pc' = [pc EXCEPT ![p] = "done"]
  /\ UNCHANGED <<now, submissions, submissionIdCounter, dirs, fs, invs, audit>>
  /\ UNCHANGED call

\* ---------------------------------------------- CodingController.analyzeCode
\* A catch block of analyzeCode that marks the pending submissions failed.
AnalyzeCodeCatchFailsPending(store) ==
  [i \in DOMAIN store |->
     IF store[i].status = "pending" THEN [store[i] EXCEPT !.status = "failed"]
     ELSE store[i]]

\* analyzeCode, the catch block: it sends a 500 and leaves the store alone.
AnalyzeCodeCatch(store) == store

\* analyzeCode, up to `await CodeExecutionService.analyzeCode(...)`, the call
\* of the text-generation service; the problem statement it looks up goes
\* into the prompt only.
CodingController_analyzeCode(p) ==
  /\ pc[p] = "idle"
  /\ \E code \in CodeInputs \cup {EmptyCode}, language \in LanguageInputs :
       IF code = EmptyCode
       THEN /\ loc' = [loc EXCEPT ![p] = Respond([code |-> 400])]
            /\ pc' = [pc EXCEPT ![p] = "done"]
       ELSE /\ loc' = [loc EXCEPT ![p] =
                         [InitLoc EXCEPT !.handler = "analyzeCode", !.code = code,
                                         !.language = language]]
            /\ pc' = [pc EXCEPT ![p] = "an_call"]
  /\ UNCHANGED <<now, submissions, submissionIdCounter, dirs, fs, invs, audit>>
  /\ UNCHANGED call

\* analyzeCode, after the service answered or failed: the analysis is sent,
\* or the catch block sends a 500.  loc[p].advisory keeps which.
analyzeCode_respond(p) ==
  /\ pc[p] = "an_call"
  /\ \E answered \in BOOLEAN :
       IF answered
       THEN /\ loc' = [loc EXCEPT ![p] =
                         [InitLoc EXCEPT !.handler = "analyzeCode",
                                         !.advisory = "analysis"]]
            /\ UNCHANGED submissions
       ELSE /\ loc' = [loc EXCEPT ![p] =
                         [InitLoc EXCEPT !.handler = "analyzeCode",
                                         !.advisory = "failed"]]
            /\ submissions' = AnalyzeCodeCatch(submissions)
  /\ pc' = [pc EXCEPT ![p] = "done"]
  /\ UNCHANGED <<now, submissionIdCounter, dirs, fs, invs, audit>>
  /\ UNCHANGED call

\* ------------------------------------------------------------ specification
Next ==
  \/ Tick
  \/ \E p \in Procs : CodingController_executeCode(p)
  \/ \E p \in Procs : submitSolution(p)
  \/ \E p \in Procs : submitSolution_run(p)
  \/ \E p \in Procs : testCode_case(p)
  \/ \E p \in Procs : executeCode_mkdir(p)
  \/ \E p \in Procs : executeCode_writeFile(p)
  \/ \E p \in Procs : executeCode_exec(p)
  \/ \E p \in Procs : submitSolution_update(p)
  \/ \E p \in Procs : submitSolution_respond(p)
  \/ \E p \in Procs : submitCodingTest(p)
  \/ \E p \in Procs : submitCodingTest_next(p)
  \/ \E p \in Procs : submitCodingTest_graded(p)
  \/ \E p \in Procs : submitCodingTest_respond(p)
  \/ \E p \in Procs : CodingController_analyzeCode(p)
  \/ \E p \in Procs : analyzeCode_respond(p)

Spec == Init /\ [][Next]_vars

\* ------------------------------------------- submitSolution under fairness
\* The requests of submitSolution alone, with the scheduling of Node: a
\* handler that waits for a promise goes on once the promise has settled, and
\* every promise here settles (mkdir, writeFile and exec end, with a result
\* or an error; exec ends at the latest at the timeout).  Nothing says that a
\* request ever arrives or that the clock ever advances.
\*
\* The run has MaxInv invocations of executeCode: a request is taken only
\* when the invocations its test cases need are still available, so that no
\* handler waits for an invocation the run does not have.
CasesToRun(testCases, from) ==
  Cardinality({i \in from..Len(testCases) : ~IsNullCase(testCases[i])})

\* The invocations of executeCode that the request p will still start.
Demand(p) ==
  CASE pc[p] = "ss_created" ->
         LET testCases == Problems(loc[p].problemId).testCases IN
         IF testCases.malformed THEN 0 ELSE CasesToRun(testCases.cases, 1)
    [] pc[p] = "tc_loop" -> CasesToRun(loc[p].testCases, loc[p].tcIdx)
    [] pc[p] \in {"ex_mkdir", "ex_write", "ex_exec"} ->
         CasesToRun(loc[p].testCases, loc[p].tcIdx + 1)
    [] OTHER -> 0

RECURSIVE TotalDemand(_)
TotalDemand(requests) ==
  IF requests = {} THEN 0
  ELSE LET p == CHOOSE q \in requests : TRUE IN
       Demand(p) + TotalDemand(requests \ {p})

Admitted == Len(invs) + TotalDemand(Procs) <= MaxInv

\* The steps a handler takes after its request was taken.
Continue(p) ==
  \/ submitSolution_run(p)
  \/ testCode_case(p)
  \/ executeCode_mkdir(p)
  \/ executeCode_writeFile(p)
  \/ executeCode_exec(p)
  \/ submitSolution_update(p)
  \/ submitSolution_respond(p)

LiveNext ==
  \/ Tick
  \/ \E p \in Procs : submitSolution(p) /\ Admitted'
  \/ \E p \in Procs : submitSolution_run(p)
  \/ \E p \in Procs : testCode_case(p)
  \/ \E p \in Procs : executeCode_mkdir(p)
  \/ \E p \in Procs : executeCode_writeFile(p)
  \/ \E p \in Procs : executeCode_exec(p)
  \/ \E p \in Procs : submitSolution_update(p)
  \/ \E p \in Procs : submitSolution_respond(p)

SpecLive ==
  /\ Init
  /\ [][LiveNext]_vars
  /\ \A p \in Procs : WF_vars(Continue(p))

\* --------------------------------------------- the score of one question
\* The scoring lines of submitCodingTest run on their own: from the counts
\* of a testCode result and the question to earnedScore.
MaxCases == 10       \* test cases of a question
MaxPoints == 45      \* point value of a question; 0 stands for none given

ScoreInputs ==
  {[fn |-> "score", passedCount |-> x[1], totalTests |-> x[2],
    problem |-> [id |-> 1, points |-> x[3]],
    returned |-> FALSE, earnedScore |-> Number(0)] :
     x \in {y \in (0..MaxCases) \X (0..MaxCases) \X (0..MaxPoints) : y[1] <= y[2]}}

ScoreInit ==
  /\ Idle
  /\ call \in ScoreInputs

\* const problemScore = problem.points || 10;
\* const earnedScore = Math.round((passedCount / totalTests) * problemScore);
submitCodingTest_score ==
  /\ call.fn = "score"
  /\ ~call.returned
  /\ call' = [call EXCEPT
                !.returned = TRUE,
                !.earnedScore = EarnedScore(call.passedCount, call.totalTests,
                                            PointsOf(call.problem))]
  /\ UNCHANGED serverVars

ScoreNext == submitCodingTest_score

SpecScore == ScoreInit /\ [][ScoreNext]_vars

\* ------------------------------------------------ TestService.submitMCQTest
\* submitMCQTest awaits TestModel.getById and runs to its return without
\* another await; it reads and writes no state of the server.  call holds its
\* locals: the questions of the test, the answers, the position in the loop
\* over the answers (idx), totalScore, maxScore and results.
MaxQuestions == 40   \* questions of an MCQ test

MCQQuestions(n) == [i \in 1..n |-> [id |-> i, correctAnswerId |-> i % 4]]

\* One answer to each of the n questions, the first `right` of them correct.
MCQAnswers(n, right) ==
  [i \in 1..n |->
     [questionId |-> i, answerId |-> IF i <= right THEN i % 4 ELSE (i % 4) + 1]]

\* submitMCQTest after the questions are read: totalScore = 0,
\* maxScore = questions.length * 10, results = [].
MCQStart(questions, answers) ==
  [fn |-> "submitMCQTest", questions |-> questions, answers |-> answers,
   idx |-> 1, totalScore |-> 0, maxScore |-> Len(questions) * 10,
   results |-> <<>>, returned |-> FALSE, percentageScore |-> Number(0)]

MCQInputs ==
  {MCQStart(MCQQuestions(x[1]), MCQAnswers(x[1], x[2])) :
     x \in {y \in (0..MaxQuestions) \X (0..MaxQuestions) : y[2] <= y[1]}}
  \cup {MCQStart(MCQQuestions(n), answers) :
          n \in {0, 2},
          answers \in {<<[questionId |-> 1, answerId |-> 1],
                          [questionId |-> 1, answerId |-> 1],
                          [questionId |-> 1, answerId |-> 1]>>,
                        <<[questionId |-> 9, answerId |-> 1],
                          [questionId |-> 2, answerId |-> 2]>>}}

MCQInit ==
  /\ Idle
  /\ call \in MCQInputs

\* submitMCQTest, one pass of the loop over the answers.
submitMCQTest_answer ==
  /\ call.fn = "submitMCQTest"
  /\ ~call.returned
  /\ call.idx <= Len(call.answers)
  /\ LET answer == call.answers[call.idx]
         question == Find(call.questions, answer.questionId)
     IN
     IF question = <<>>
     THEN call' = [call EXCEPT
                     !.results = Append(@, [questionId |-> answer.questionId,
                                            correct |-> FALSE,
                                            message |-> "Question not found"]),
                     !.idx = @ + 1]
     ELSE LET correct == question.correctAnswerId = answer.answerId IN
          call' = [call EXCEPT
                     !.totalScore = IF correct THEN @ + 10 ELSE @,
                     !.results = Append(@, [questionId |-> answer.questionId,
                                            correct |-> correct,
                                            correctAnswerId |-> question.correctAnswerId,
                                            selectedAnswerId |-> answer.answerId]),
                     !.idx = @ + 1]
  /\ UNCHANGED serverVars

\* submitMCQTest, after the loop:
\* percentageScore = Math.round((totalScore / maxScore) * 100), and the return.
submitMCQTest_return ==
  /\ call.fn = "submitMCQTest"
  /\ ~call.returned
  /\ call.idx > Len(call.answers)
  /\ call' = [call EXCEPT
                !.returned = TRUE,
                !.percentageScore =
                   MathRound(FMul(FDiv(call.totalScore, call.maxScore), 100))]
  /\ UNCHANGED serverVars

MCQNext ==
  \/ submitMCQTest_answer
  \/ submitMCQTest_return

SpecMCQ == MCQInit /\ [][MCQNext]_vars

\* ------------------------------------------------ compareOutputs on its own
\* The values compareOutputs is called with: actual is what parseOutput
\* returns, a JSON value or a string; expected is testCase.expectedOutput, a
\* JSON value, or undefined when the test case has none.
CompareValues ==
  << Num(1), Num(2), Str(<<"a">>), Null,
     Arr(<<>>),
     Arr(<<Num(1), Num(2), Num(3)>>),
     Arr(<<Num(1), Num(2)>>),
     Arr(<<Num(2), Num(1)>>),
     Arr(<<Num(1)>>),
     Arr(<<Arr(<<>>)>>),
     Arr(<<Obj(<<>>)>>),
     Obj(<<>>),
     Obj(<<Prop("a", Num(1)), Prop("b", Num(2))>>),
     Obj(<<Prop("b", Num(2)), Prop("a", Num(1))>>),
     Obj(<<Prop("a", Num(1)), Prop("c", Num(2))>>),
     Obj(<<Prop("a", Num(1))>>),
     Obj(<<Prop("0", Num(1))>>),
     Obj(<<Prop("a", Arr(<<Num(1), Num(2)>>))>>),
     Obj(<<Prop("a", Arr(<<Num(2), Num(1)>>))>>),
     Undefined >>

\* The last of CompareValues, undefined, is no value of actual.
CompareInputs ==
  {[fn |-> "compareOutputs", actual |-> i, expected |-> j,
    returned |-> FALSE, result |-> FALSE] :
     i \in 1..(Len(CompareValues) - 1), j \in 1..Len(CompareValues)}

CompareInit ==
  /\ Idle
  /\ call \in CompareInputs

\* const passed = this.compareOutputs(parsedOutput, testCase.expectedOutput)
testCode_compare ==
  /\ call.fn = "compareOutputs"
  /\ ~call.returned
  /\ call' = [call EXCEPT
                !.returned = TRUE,
                !.result = compareOutputs(CompareValues[call.actual],
                                          CompareValues[call.expected])]
  /\ UNCHANGED serverVars

CompareNext == testCode_compare

SpecCompare == CompareInit /\ [][CompareNext]_vars

\* ------------------------------------------------ SubmissionModel on its own
\* The methods of SubmissionModel called in any order with any arguments;
\* call holds the last call: its arguments, what it returned and, for
\* update, the store and the counter before it.
MaxSubmissions == 2  \* calls of SubmissionModel.create in a run

StoreUserIds == {1, 2}

\* The submissionData of create: a submission to problem 1 or to test 1.
StoreInputs ==
  {[userId |-> u, problemId |-> q[1], testId |-> q[2], code |-> "codeA",
    language |-> "python", status |-> "pending", results |-> NoResults] :
     u \in StoreUserIds, q \in {<<1, NoId>>, <<NoId, 1>>}}

StoreInit ==
  /\ Idle
  /\ call = NoCall

UnchangedByStore == <<dirs, fs, pc, loc, invs, audit>>

SubmissionModel_create ==
  /\ submissionIdCounter <= MaxSubmissions
  /\ \E submissionData \in StoreInputs :
       LET created == SubmissionModelCreate(submissions, submissionIdCounter,
                                            submissionData, now)
       IN
       /\ submissions' = created.submissions
       /\ submissionIdCounter' = created.submissionIdCounter
       /\ call' = [fn |-> "create", result |-> created.submissions[created.id]]
  /\ UNCHANGED <<now, UnchangedByStore>>

\* update(id, status, results?): the id may be one the store does not hold,
\* results may be left out.
SubmissionModel_update ==
  /\ \E id \in 1..(MaxSubmissions + 1), status \in {"completed", "failed"},
        results \in {NoResults, [error |-> "e"]} :
       /\ submissions' = SubmissionModelUpdate(submissions, id, status, results)
       /\ call' = [fn |-> "update", id |-> id, status |-> status,
                   results |-> results, before |-> submissions,
                   counterBefore |-> submissionIdCounter,
                   result |-> SubmissionModelUpdateReturn(submissions, id,
                                                          status, results)]
  /\ UNCHANGED <<now, submissionIdCounter, UnchangedByStore>>

SubmissionModel_getByUserId ==
  /\ \E userId \in StoreUserIds :
       call' = [fn |-> "getByUserId", arg |-> userId,
                result |-> SubmissionModelGetByUserId(submissions, userId)]
  /\ UNCHANGED <<now, submissions, submissionIdCounter, UnchangedByStore>>

SubmissionModel_getByProblemId ==
  /\ call' = [fn |-> "getByProblemId", arg |-> 1,
              result |-> SubmissionModelGetByProblemId(submissions, 1)]
  /\ UNCHANGED <<now, submissions, submissionIdCounter, UnchangedByStore>>

SubmissionModel_getByTestId ==
  /\ call' = [fn |-> "getByTestId", arg |-> 1,
              result |-> SubmissionModelGetByTestId(submissions, 1)]
  /\ UNCHANGED <<now, submissions, submissionIdCounter, UnchangedByStore>>

StoreNext ==
  \/ Tick
  \/ SubmissionModel_create
  \/ SubmissionModel_update
  \/ SubmissionModel_getByUserId
  \/ SubmissionModel_getByProblemId
  \/ SubmissionModel_getByTestId

SpecStore == StoreInit /\ [][StoreNext]_vars

\* ------------------------------------------------------------------ claims
\* The request p is inside testCode (between its entry and the step of the
\* caller that takes its result).
InTestCode(p) ==
  /\ loc[p].handler \in {"submitSolution", "submitCodingTest"}
  /\ pc[p] \in {"tc_loop", "ex_mkdir", "ex_write", "ex_exec", "tc_done"}

\* The record of the store that the k-th call of create made.
RecordOf(k) == submissions[audit[k].id]

\* C1: any two invocations of executeCode use different scratch directories
\* and source files, and no invocation writes over or runs a file that
\* another invocation wrote.
C1_ScratchNeverShared ==
  /\ \A i, j \in DOMAIN invs :
       i # j => /\ invs[i].tempDir # invs[j].tempDir
                /\ invs[i].filePath # invs[j].filePath
  /\ \A i \in DOMAIN invs : invs[i].overwrote = 0 /\ invs[i].ran \in {0, i}

\* C2: every call of SubmissionModel.create returns an id that no other
\* call has returned, greater than every id returned before it.
C2_IdsUniqueAndIncreasing ==
  \A i, j \in DOMAIN audit : i < j => audit[i].id < audit[j].id

\* Two requests have each created a submission and both are still running.
C2_Witness ==
  /\ Len(audit) = 2
  /\ pc[1] = "ss_created"
  /\ pc[2] \in {"tc_done", "ct_loop"}
  /\ loc[2].handler = "submitCodingTest"
  /\ loc[2].subIdx = 2

\* C3: a submission's status is mutated exactly once after creation, from
\* pending to completed or failed; once it is completed or failed it does
\* not change again.
C3_StatusMutatedOnce ==
  \A k \in DOMAIN audit :
    LET statuses == audit[k].statuses IN
    /\ Len(statuses) <= 2
    /\ \A n \in 1..(Len(statuses) - 1) : statuses[n] = "pending"

\* C4: every submission record is pending right after create returns,
\* whichever handler created it.
C4_CreatedPending ==
  \A k \in DOMAIN audit : audit[k].statuses[1] = "pending"

\* C5: a submission whose code fails every test case is completed, never
\* failed, once the test-case run has finished, and earns score 0 in a
\* coding test.
C5_AllCasesFailedIsCompleted ==
  \A k \in DOMAIN audit :
    (audit[k].runnerReturned /\ audit[k].totalCases > 0 /\ audit[k].passedCases = 0)
      => /\ RecordOf(k).status = "completed"
         /\ audit[k].score = Number(0)

\* C6: no submission for which testCode returned a result and the store
\* update succeeded is recorded as failed.
C6_FailedOnlyWhenGradingThrew ==
  \A k \in DOMAIN audit :
    RecordOf(k).status = "failed" => ~audit[k].runnerReturned

\* C7: an executor-level fault of executeCode (mkdir, writeFile, spawn) is
\* thrown to the caller, not returned as {output: '', error}, and testCode
\* makes no passed:false entry of it.
C7_ExecutorFaultSurfacedDistinctly ==
  \A i \in DOMAIN invs :
    invs[i].fault # "none" => invs[i].surfaced = "thrown" /\ ~invs[i].asEntry

\* The entry carries the fields of the test case.
CarriesFields(entry, testCase) ==
  IsNullCase(testCase)
  \/ \A f \in DOMAIN testCase : f \in DOMAIN entry /\ entry[f] = testCase[f]

\* C8: testCode never stops early: it returns only after the last case, with
\* one entry per test case in the order of the list, the entry at position i
\* carrying the fields of test case i.
C8_OneEntryPerCaseInOrder ==
  \A p \in Procs :
    InTestCode(p) =>
      LET l == loc[p] IN
      /\ Len(l.results) = l.tcIdx - 1
      /\ Len(l.results) <= Len(l.testCases)
      /\ pc[p] = "tc_done" => Len(l.results) = Len(l.testCases)
      /\ \A i \in 1..Len(l.results) : CarriesFields(l.results[i], l.testCases[i])

\* testCode has returned for a list of three cases of which the first did
\* not pass, the second threw and the third passed.
C8_Witness ==
  \E p \in Procs :
    /\ InTestCode(p) /\ pc[p] = "tc_done"
    /\ Len(loc[p].testCases) = 3 /\ Len(loc[p].results) = 3
    /\ ~loc[p].results[1].passed
    /\ loc[p].results[2].error = "TypeError"
    /\ loc[p].results[3].passed

\* C9: the passed flag that testCode returns is true exactly when every
\* entry of results has passed = true; for an empty list of test cases it
\* returns passed: true and results: [].
C9_PassedIffAllEntriesPassed ==
  \A p \in Procs :
    (InTestCode(p) /\ pc[p] = "tc_done") =>
      LET l == loc[p] IN
      /\ l.allPassed <=> (\A i \in 1..Len(l.results) : l.results[i].passed)
      /\ l.testCases = <<>> => (l.allPassed /\ l.results = <<>>)

\* testCode has returned passed: true for an empty list in one request and
\* passed: false for a list with a failing case in the other.
C9_Witness ==
  \E p, q \in Procs :
    /\ InTestCode(p) /\ pc[p] = "tc_done"
    /\ loc[p].testCases = <<>> /\ loc[p].allPassed
    /\ InTestCode(q) /\ pc[q] = "tc_done"
    /\ loc[q].results # <<>> /\ ~loc[q].allPassed

\* C10: a fault raised while one test case is processed does not leave
\* testCode: the entry of that case has passed = false and the message of
\* the fault, and the cases after it still get their entries.
C10_CaseFaultsBecomeEntries ==
  \A p \in Procs :
    InTestCode(p) =>
      LET l == loc[p] IN
      /\ \A k \in DOMAIN l.faults :
           /\ l.faults[k].idx <= Len(l.results)
           /\ ~l.results[l.faults[k].idx].passed
           /\ l.results[l.faults[k].idx].error = l.faults[k].message
      /\ (l.faults # <<>> /\ pc[p] = "tc_done") => Len(l.results) = Len(l.testCases)

\* executeCode threw in the first of three cases (mkdir failed) and testCode
\* has returned with an entry for each of the three.
C10_Witness ==
  \E p \in Procs :
    /\ InTestCode(p) /\ pc[p] = "tc_done"
    /\ loc[p].faults # <<>>
    /\ loc[p].faults[1] = [idx |-> 1, message |-> "mkdir failed"]
    /\ Len(loc[p].results) = 3
    /\ loc[p].results[3].passed

\* C11: when exec kills a program at the timeout, executeCode returns empty
\* output and an error that classifies the run as a timeout: an error that
\* no other failure of exec gives.
C11_TimeoutClassified ==
  \A i \in DOMAIN invs :
    invs[i].killed => invs[i].error \notin ExecFailures \cup {"none", undefined}

\* Structural equality as the specification defines it: arrays by length
\* and position, mappings by key set and the value under every key,
\* primitives by value; values of different kinds are not equal.
IsPrimitive(x) == x.k \notin {"arr", "obj"}

RECURSIVE StructurallyEqual(_, _)
StructurallyEqual(a, e) ==
  IF a.k = "arr" /\ e.k = "arr"
  THEN /\ Len(a.v) = Len(e.v)
       /\ \A i \in 1..Len(a.v) : StructurallyEqual(a.v[i], e.v[i])
  ELSE IF a.k = "obj" /\ e.k = "obj"
  THEN /\ ObjectKeys(a) = ObjectKeys(e)
       /\ \A key \in ObjectKeys(a) :
            StructurallyEqual(GetProp(a, key), GetProp(e, key))
  ELSE IF IsPrimitive(a) /\ IsPrimitive(e)
  THEN a.k = e.k /\ a.v = e.v
  ELSE FALSE

\* C12: on two arrays, on two mappings and on two primitives compareOutputs
\* is structural equality: same length and equal elements at every position,
\* same key set and equal values under every key whatever the key order,
\* equal values.
C12_StructuralEquality ==
  (call.fn = "compareOutputs" /\ call.returned) =>
    LET actual == CompareValues[call.actual]
        expected == CompareValues[call.expected]
    IN
    ((actual.k = "arr" /\ expected.k = "arr")
       \/ (actual.k = "obj" /\ expected.k = "obj")
       \/ (IsPrimitive(actual) /\ IsPrimitive(expected)))
      => (call.result <=> StructurallyEqual(actual, expected))

\* C13: the points earned for a question are round(points * passedCases /
\* totalCases), points being the point value of the question, 10 when it
\* has none.
C13_EarnedIsRoundedShare ==
  (call.fn = "score" /\ call.returned /\ call.totalTests > 0)
    => call.earnedScore
         = RoundDiv(PointsOf(call.problem) * call.passedCount, call.totalTests)

\* The point values (default 10) of a list of questions, summed.
RECURSIVE QuestionPoints(_)
QuestionPoints(questions) ==
  IF questions = <<>> THEN 0
  ELSE PointsOf(Head(questions)) + QuestionPoints(Tail(questions))

\* C14: the maxScore that submitCodingTest returns is the sum of the point
\* values of all the questions of the test, whatever was submitted.
C14_MaxScoreIsTestTotal ==
  \A p \in Procs :
    (pc[p] = "ct_return" /\ ~loc[p].questions.malformed)
      => loc[p].maxScore = QuestionPoints(loc[p].questions.list)

\* C15: the score that submitCodingTest returns is an integer between 0 and
\* the maxScore it returns.
C15_ScoreIsBoundedInteger ==
  \A p \in Procs :
    pc[p] = "ct_return"
      => /\ ~loc[p].totalScore.nan
         /\ 0 <= loc[p].totalScore.v
         /\ loc[p].totalScore.v <= loc[p].maxScore

\* The scores of the sub-results of the submissions whose problem is among
\* the questions, summed.
RECURSIVE FoundScores(_, _, _)
FoundScores(questions, subList, ctResults) ==
  IF ctResults = <<>> THEN Number(0)
  ELSE LET rest == FoundScores(questions, Tail(subList), Tail(ctResults)) IN
       IF Find(questions, Head(subList).problemId) = <<>> THEN rest
       ELSE Plus(Head(ctResults).score, rest)

RightAnswers(questions, answers) ==
  {i \in 1..Len(answers) :
     LET question == Find(questions, answers[i].questionId) IN
     question # <<>> /\ question.correctAnswerId = answers[i].answerId}

\* C17: submitMCQTest returns score = 10 for each answer whose answerId is
\* the correctAnswerId of its question, maxScore = 10 times the number of
\* questions, and percentageScore = round(100 * score / maxScore).
C17_MCQScoreAndPercentage ==
  (call.fn = "submitMCQTest" /\ call.returned) =>
    /\ call.totalScore = 10 * Cardinality(RightAnswers(call.questions, call.answers))
    /\ call.maxScore = 10 * Len(call.questions)
    /\ call.percentageScore = RoundDiv(100 * call.totalScore, call.maxScore)

\* C18: executeCode rejects a language outside SUPPORTED_LANGUAGES before
\* it creates a directory, writes a file or runs a command: every
\* invocation that reached mkdir has a supported language, every directory
\* and file belongs to such an invocation, and a testCode call with an
\* unsupported language only makes "Unsupported language" entries.
C18_UnsupportedRejectedBeforeSandbox ==
  /\ \A i \in DOMAIN invs :
       invs[i].filePath.name[2]
         \in {FILE_EXTENSIONS(language) : language \in SUPPORTED_LANGUAGES}
  /\ \A d \in dirs : \E i \in DOMAIN invs : invs[i].tempDir = d
  /\ \A f \in DOMAIN fs : \E i \in DOMAIN invs : invs[i].filePath = f
  /\ \A p \in Procs :
       (InTestCode(p) /\ loc[p].language \notin SUPPORTED_LANGUAGES) =>
         /\ pc[p] \in {"tc_loop", "tc_done"}
         /\ loc[p].inv = 0
         /\ \A i \in DOMAIN loc[p].results :
              /\ ~loc[p].results[i].passed
              /\ ~IsNullCase(loc[p].testCases[i])
                   => loc[p].results[i].error = "Unsupported language"

\* A testCode call for a language that is not supported has returned: its
\* case has the "Unsupported language" entry and nothing was created.
C18_Witness ==
  \E p \in Procs :
    /\ InTestCode(p) /\ pc[p] = "tc_done"
    /\ loc[p].language = "ruby"
    /\ Len(loc[p].results) = 1
    /\ loc[p].results[1].error = "Unsupported language"
    /\ invs = <<>> /\ dirs = {} /\ fs = <<>>

\* C19: every record of the store has a language of SUPPORTED_LANGUAGES.
C19_StoredLanguagesSupported ==
  \A id \in DOMAIN submissions :
    submissions[id].language \in SUPPORTED_LANGUAGES

\* C20: the store is append-only: every id that create has returned is
\* still retrievable with getById, and the store holds one record for each
\* call of create.
C20_StoreAppendOnly ==
  /\ \A k \in DOMAIN audit :
       /\ audit[k].id \in DOMAIN submissions
       /\ SubmissionModelGetById(submissions, audit[k].id).id = audit[k].id
  /\ Cardinality(DOMAIN submissions) = Len(audit)

\* Two records were created, and one of them was updated to completed and
\* then to failed.
C20_Witness ==
  /\ Len(audit) = 2
  /\ \E k \in DOMAIN audit : audit[k].statuses = <<"pending", "completed", "failed">>
  /\ \A k \in DOMAIN audit : audit[k].id \in DOMAIN submissions

\* The field of a record that a list method filters on.
FilterField(fn) ==
  CASE fn = "getByUserId" -> "userId"
    [] fn = "getByProblemId" -> "problemId"
    [] fn = "getByTestId" -> "testId"

\* C21: getByUserId, getByProblemId and getByTestId return exactly the
\* matching records of the store, and a record created after another one (it
\* has the greater id) comes before it in the list.
C21_ListsNewestFirst ==
  call.fn \in {"getByUserId", "getByProblemId", "getByTestId"} =>
    LET list == call.result
        matching == {id \in DOMAIN submissions :
                       submissions[id][FilterField(call.fn)] = call.arg}
    IN
    /\ {list[i].id : i \in 1..Len(list)} = matching
    /\ Len(list) = Cardinality(matching)
    /\ \A i \in 1..Len(list) : list[i] = submissions[list[i].id]
    /\ \A i, j \in 1..Len(list) : list[i].id > list[j].id => i < j

\* The fields of a record that update leaves alone.
KeptFields == {"id", "userId", "problemId", "testId", "code", "language", "createdAt"}

\* C28: update(id, status, results) changes only the status and the results
\* of the record with that id and returns that record: its other fields,
\* every other record, the set of ids and the id counter are as before; for
\* an id the store does not hold it returns undefined and the store is as
\* before.
C28_UpdateFrame ==
  call.fn = "update" =>
    /\ submissionIdCounter = call.counterBefore
    /\ DOMAIN submissions = DOMAIN call.before
    /\ \A i \in DOMAIN call.before \ {call.id} : submissions[i] = call.before[i]
    /\ call.id \in DOMAIN call.before =>
         /\ \A f \in KeptFields : submissions[call.id][f] = call.before[call.id][f]
         /\ submissions[call.id].status = call.status
         /\ submissions[call.id].results =
              IF call.results # NoResults THEN call.results
              ELSE call.before[call.id].results
         /\ call.result = submissions[call.id]
    /\ call.id \notin DOMAIN call.before =>
         /\ submissions = call.before
         /\ call.result = undefined

\* update has just set the second of two pending records to failed, with
\* results.
C28_Witness ==
  /\ call.fn = "update"
  /\ call.id = 2
  /\ DOMAIN call.before = {1, 2}
  /\ call.before[1].status = "pending" /\ call.before[2].status = "pending"
  /\ submissions[2].status = "failed"
  /\ call.results # NoResults

\* C22: the process that executeCode spawns receives the input parameter:
\* on its standard input or as a word of its command line.
C22_InputDelivered ==
  \A i \in DOMAIN invs :
    (invs[i].spawned /\ invs[i].input # NoInput) =>
      \/ invs[i].stdin = invs[i].input
      \/ \E k \in 1..Len(invs[i].command) : invs[i].command[k] = invs[i].input

\* C23: when the process exits normally executeCode returns {output:
\* stdout, error: stderr or undefined}, so a program that prints nothing
\* yields output '' and error undefined; when the process fails (a compile
\* error, a non-zero exit, a signal, the timeout) it returns output '' and a
\* non-empty error.
C23_ResultOfExecuteCode ==
  \A i \in DOMAIN invs :
    /\ invs[i].exit = "normal" =>
         /\ invs[i].output = invs[i].stdout
         /\ invs[i].error = IF invs[i].stderr = "" THEN undefined ELSE invs[i].stderr
    /\ invs[i].exit \in {"failed", "timeout"} =>
         /\ invs[i].output = <<>>
         /\ invs[i].error \notin {undefined, "", "none"}

\* One program printed nothing and exited normally, another was killed at
\* the timeout.
C23_Witness ==
  \E i, j \in DOMAIN invs :
    /\ invs[i].exit = "normal"
    /\ invs[i].stdout = <<>> /\ invs[i].stderr = ""
    /\ invs[i].output = <<>> /\ invs[i].error = undefined
    /\ invs[j].exit = "timeout"

\* The request p takes a step of analyzeCode.
AnalyzeCodeStep(p) ==
  /\ pc'[p] # pc[p]
  /\ loc'[p].handler = "analyzeCode"

\* C24: a step of analyzeCode, whether the service answers or fails, leaves
\* every record of the store as it was, and submitSolution and
\* submitCodingTest never wait for the service.
C24_AdvisoryNeverAffectsVerdict ==
  /\ [][(\E p \in Procs : AnalyzeCodeStep(p))
         => (submissions' = submissions /\ audit' = audit)]_vars
  /\ [](\A p \in Procs :
          loc[p].handler \in {"submitSolution", "submitCodingTest"}
            => (pc[p] # "an_call" /\ loc[p].advisory = "none"))

\* The analysis of one request has failed while the submission of the other
\* is pending, its test cases run.
C24_Witness ==
  \E p, q \in Procs :
    /\ pc[p] = "done" /\ loc[p].advisory = "failed"
    /\ pc[q] = "tc_done" /\ loc[q].handler = "submitSolution"
    /\ Len(loc[q].results) > 0
    /\ submissions[loc[q].submissionId].status = "pending"

\* C25: within one testCode call the executions are sequential: when the
\* execution of a test case starts, every execution that the same call
\* started before it has returned, so at most one of them is running.
C25_CasesRunSequentially ==
  \A i, j \in DOMAIN invs :
    (i < j /\ invs[i].by.submission > 0 /\ invs[i].by = invs[j].by)
      => invs[i].settled

\* One testCode call runs its second execution after its first has
\* returned.
C25_Witness ==
  \E i, j \in DOMAIN invs :
    /\ i < j
    /\ invs[i].by.submission > 0 /\ invs[i].by = invs[j].by
    /\ invs[i].settled /\ invs[i].exit = "normal"
    /\ ~invs[j].settled
    /\ \E p \in Procs : pc[p] = "ex_exec" /\ loc[p].inv = j

\* C26: compareOutputs returns true only for two values of the same kind:
\* never for an array and a mapping, nor for a composite and a primitive.
C26_EqualOnlyWithinOneKind ==
  (call.fn = "compareOutputs" /\ call.returned /\ call.result) =>
    CompareValues[call.actual].k = CompareValues[call.expected].k

\* C27: submitMCQTest returns an integer score between 0 and maxScore and an
\* integer percentageScore between 0 and 100.
C27_MCQScoreBounded ==
  (call.fn = "submitMCQTest" /\ call.returned) =>
    /\ 0 <= call.totalScore /\ call.totalScore <= call.maxScore
    /\ ~call.percentageScore.nan
    /\ 0 <= call.percentageScore.v /\ call.percentageScore.v <= 100

\* The calls of create that the request p made for entry i of its
\* submissions list.
RecordsFor(p, i) ==
  {k \in DOMAIN audit : audit[k].by = [request |-> p, submission |-> i]}

C30_PendingIsResolved ==
  \A id \in 1..Cardinality(Procs) :
    (id \in DOMAIN submissions /\ submissions[id].status = "pending")
      ~> (id \in DOMAIN submissions
            /\ submissions[id].status \in {"completed", "failed"})

\* Two submissions were created pending: one was failed by the catch block
\* before any test case ran, the other was completed after its three test
\* cases.
C30_Witness ==
  /\ Len(audit) = 2
  /\ \E k \in DOMAIN audit :
       audit[k].statuses = <<"pending", "failed">> /\ ~audit[k].runnerReturned
  /\ \E k \in DOMAIN audit :
       /\ audit[k].statuses = <<"pending", "completed">>
       /\ audit[k].totalCases = 3

====
